---- MODULE Spec2Model ----
(***************************************************************************)
(* Model of the Actual-build scaffold: the two provisioning scripts        *)
(* (scripts/setup.sh and the Codespace setup script), the root layout      *)
(* wrapper, and the Express server the Codespace script generates.         *)
(*                                                                         *)
(* A script is a table from source line to instruction; every kind of      *)
(* instruction is one action.  The disk is a function from project paths   *)
(* to entries.  "set -e" makes every failing command abort the run.        *)
(***************************************************************************)
EXTENDS Integers, Sequences, FiniteSets, TLC

VARIABLES
    script,     \* which script this behaviour runs: "setup" or "codespace"
    nodeV,      \* output of `node -v` in the environment, or NoNode
    status,     \* "idle", "running", "done" (fell off the end), "aborted"
    pc,         \* source line of the next instruction of the running script
    cwd,        \* working directory of the running script, relative to the project root
    exit,       \* exit status of the last finished run (-1: none yet)
    NODE_VERSION, \* the shell variable set on setup.sh line 17
    disk,       \* the project directory: path -> entry
    start,      \* disk when the current run started
    orig,       \* disk when the first of the current streak of aborted runs started
    prev,       \* disk when the previous run ended
    prevStatus, \* status in which the previous run ended ("none" before the second run)
    runs,       \* number of runs started
    injected,   \* number of commands the environment has made fail
    ran,        \* lines executed by the current run
    out,        \* messages echoed by the current run
    contacted,  \* services contacted by any step so far
    children,   \* last input handed to RootLayout
    doc,        \* last document RootLayout returned
    clock,      \* wall clock read by the generated server
    req,        \* last request the generated server received
    resp,       \* the responses sent for that request, in order
    API_PORT,   \* environment variable API_PORT of the server process
    CORS_ORIGIN, \* environment variable CORS_ORIGIN of the server process
    listening,  \* whether the generated server has been started
    PORT,       \* the constant PORT of the generated server (line 100)
    corsOrigin, \* the origin option handed to cors() (line 105)
    email,      \* last argument handed to validateEmail
    called,     \* whether validateEmail has been called
    valid       \* what that call returned

vars == <<script, nodeV, status, pc, cwd, exit, NODE_VERSION, disk, start, orig, prev,
          prevStatus, runs, injected, ran, out, contacted, children, doc, clock, req, resp,
          API_PORT, CORS_ORIGIN, listening, PORT, corsOrigin, email, called, valid>>

runVars == <<script, nodeV, status, pc, cwd, exit, NODE_VERSION, disk, start, orig, prev,
             prevStatus, runs, injected, ran, out, contacted>>
layoutVars == <<children, doc>>
serverVars == <<clock, req, resp>>
unitVars == <<API_PORT, CORS_ORIGIN, listening, PORT, corsOrigin, email, called, valid>>

-----------------------------------------------------------------------------
(* Bounds of the model *)

MaxRuns == 2
MaxInjected == 1
MaxClock == 2
MaxLiveRuns == 1
MaxEmailLen == 5

-----------------------------------------------------------------------------
(* The disk *)

NoEntry == [kind |-> "none", base |-> "", mods |-> {}]
Dir == [kind |-> "dir", base |-> "", mods |-> {}]
File(b) == [kind |-> "file", base |-> b, mods |-> {}]

Root == <<>>

Paths ==
    { Root,
      <<".env.example">>, <<".env">>, <<"node_modules">>,
      <<".prettierrc">>, <<".eslintrc.js">>,
      <<"frontend">>, <<"frontend", "package.json">>, <<"frontend", "node_modules">>,
      <<"frontend", "src">>,
      <<"backend">>, <<"backend", "package.json">>, <<"backend", "node_modules">>,
      <<"backend", "tsconfig.json">>, <<"backend", "src">>,
      <<"backend", "src", "index.ts">>,
      <<"shared">>, <<"shared", "package.json">>, <<"shared", "node_modules">>,
      <<"shared", "tsconfig.json">>, <<"shared", "src">>,
      <<"shared", "src", "index.ts">>,
      <<"shared", "src", "types">>, <<"shared", "src", "types", "index.ts">>,
      <<"shared", "src", "utils">>, <<"shared", "src", "utils", "index.ts">> }

Parent(p) == SubSeq(p, 1, Len(p) - 1)

\* Path resolution of the shell: a relative path is looked up from cwd, ".." drops a
\* component.  Outside marks every place above the project root.
Outside == <<"..">>

\* Variant: ".." is not followed, the shell stays where it is
RECURSIVE ResolveNoParent(_, _)
ResolveNoParent(dir, rel) ==
    IF rel = <<>> THEN dir
    ELSE IF dir = Outside THEN Outside
    ELSE IF Head(rel) = ".." THEN ResolveNoParent(dir, Tail(rel))
    ELSE ResolveNoParent(Append(dir, Head(rel)), Tail(rel))

RECURSIVE Resolve(_, _)
Resolve(dir, rel) ==
    IF rel = <<>> THEN dir
    ELSE IF dir = Outside THEN Outside
    ELSE IF Head(rel) = ".."
         THEN IF dir = Root THEN Outside ELSE Resolve(Parent(dir), Tail(rel))
    ELSE Resolve(Append(dir, Head(rel)), Tail(rel))

IsFile(d, p) == p \in Paths /\ d[p].kind = "file"
IsDir(d, p) == p \in Paths /\ d[p].kind = "dir"
Exists(d, p) == p \in Paths /\ d[p].kind # "none"

-----------------------------------------------------------------------------
(* What the commands of the scripts do to the disk *)

\* Variant: the existence check dropped, the guarded block always runs
TestNotFileAlways(d, p) == TRUE

\* Variant: the directory test written as a file test, [ ! -f node_modules ]
TestNotDirAsFile(d, p) == ~IsFile(d, p)

\* [ ! -f p ] and [ ! -d p ]
TestNotFile(d, p) == ~IsFile(d, p)
TestNotDir(d, p) == ~IsDir(d, p)

\* mkdir -p p: p and every missing ancestor become directories; it fails when a
\* component of p exists and is not a directory.
Ancestors(p) == { SubSeq(p, 1, n) : n \in 0..Len(p) }
\* Variant: the directory is not made
MkdirPNothing(d, p) == d

CanMkdirP(d, p) == \A a \in Ancestors(p) : a \in Paths /\ d[a].kind \in {"none", "dir"}
MkdirP(d, p) ==
    [q \in Paths |-> IF q \in Ancestors(p) /\ d[q].kind = "none" THEN Dir ELSE d[q]]

\* cat > p << 'EOF': the redirection creates or truncates p, then the here-document
\* is written into it; it fails when p's directory is missing or p is a directory.
CanWrite(d, p) == p \in Paths /\ p # Root /\ IsDir(d, Parent(p)) /\ d[p].kind # "dir"
\* Variant: the here-document goes to standard output, no file is written
WriteFileDropped(d, p, tag) == d

WriteFile(d, p, tag) == [d EXCEPT ![p] = File(tag)]

\* A write that fails after its target was opened leaves the target empty.
Truncate(d, p) == [d EXCEPT ![p] = File("")]

\* Variant: mv in place of cp, the source is gone afterwards
CopyFileMove(d, src, dst) == [d EXCEPT ![dst] = d[src], ![src] = NoEntry]

\* cp src dst: dst gets the content of src; it fails when src is not a file.
CanCopy(d, src, dst) == IsFile(d, src) /\ CanWrite(d, dst)
CopyFile(d, src, dst) == [d EXCEPT ![dst] = d[src]]

\* Variant: an install that resolves versions anew every time it runs, so that a
\* second install changes what the first one put into node_modules.
InstallIntoUnpinned(d, dir, group) ==
    LET nm == Append(dir, "node_modules")
    IN  [d EXCEPT ![nm] = [kind |-> "dir", base |-> "",
                           mods |-> IF group \in d[nm].mods
                                    THEN d[nm].mods \cup {"re-resolved"}
                                    ELSE d[nm].mods \cup {group}]]

\* npm install [packages] in directory dir: node_modules holds the packages; with
\* package arguments they are also recorded in dir's package.json, which npm creates
\* when the directory has none.
InstallInto(d, dir, group) ==
    LET nm == Append(dir, "node_modules")
        pj == Append(dir, "package.json")
        d1 == [d EXCEPT ![nm] = [kind |-> "dir", base |-> "", mods |-> d[nm].mods \cup {group}]]
    IN  IF group = "lockfile" \/ pj \notin Paths THEN d1
        ELSE [d1 EXCEPT ![pj] = [kind |-> "file",
                                 base |-> IF d[pj].kind = "file" THEN d[pj].base ELSE "npm",
                                 mods |-> d[pj].mods \cup {group}]]

\* A failed npm install either leaves the disk alone or leaves the node_modules
\* directory it had begun to fill.
InstallLeftover(d, dir) ==
    LET nm == Append(dir, "node_modules")
    IN  IF d[nm].kind = "none" THEN [d EXCEPT ![nm] = Dir] ELSE d

\* npm pkg set k=v ...: the keys are set in dir's package.json, which must exist.
CanPkgSet(d, dir) == IsFile(d, Append(dir, "package.json"))
PkgSet(d, dir, kv) ==
    LET pj == Append(dir, "package.json")
    IN  [d EXCEPT ![pj] = [kind |-> "file", base |-> d[pj].base, mods |-> d[pj].mods \cup kv]]

\* npm init -y: writes dir/package.json
NpmInitIn(d, dir) == [d EXCEPT ![Append(dir, "package.json")] = File("npm-init")]

\* npx create-next-app . : refuses a directory that already holds a package.json;
\* otherwise it writes package.json and src/ and installs the dependencies.
CanCreateNextApp(d, dir) == IsDir(d, dir) /\ ~Exists(d, Append(dir, "package.json"))
CreateNextAppIn(d, dir) ==
    [d EXCEPT ![Append(dir, "package.json")] = File("create-next-app"),
              ![Append(dir, "src")] = Dir,
              ![Append(dir, "node_modules")] =
                  [kind |-> "dir", base |-> "", mods |-> d[Append(dir, "node_modules")].mods \cup {"next"}]]

-----------------------------------------------------------------------------
(* The Node.js version check of setup.sh *)

NoNode == <<>>
NodeVersions ==
    { NoNode,
      <<"v", "9", ".", "1", "1", ".", "2">>,
      <<"v", "1", "7", ".", "9", ".", "1">>,
      <<"v", "1", "8", ".", "0", ".", "0">>,
      <<"v", "2", "0", ".", "1", "1", ".", "0">> }

\* cut -d<delim> -f<n>: the n-th delimiter-separated field of the line; a line
\* without the delimiter is passed through whole.
RECURSIVE Fields(_, _)
Fields(s, delim) ==
    IF \A i \in 1..Len(s) : s[i] # delim THEN <<s>>
    ELSE LET k == CHOOSE i \in 1..Len(s) : s[i] = delim /\ \A j \in 1..(i - 1) : s[j] # delim
         IN  <<SubSeq(s, 1, k - 1)>> \o Fields(SubSeq(s, k + 1, Len(s)), delim)

Cut(s, delim, n) ==
    LET f == Fields(s, delim)
    IN  IF Len(f) = 1 THEN s ELSE IF n <= Len(f) THEN f[n] ELSE <<>>

Digits == <<"0", "1", "2", "3", "4", "5", "6", "7", "8", "9">>
DigitValue(c) == (CHOOSE i \in 1..10 : Digits[i] = c) - 1
IsInteger(s) == Len(s) > 0 /\ \A i \in 1..Len(s) : \E k \in 1..10 : Digits[k] = s[i]

RECURSIVE ToInteger(_)
ToInteger(s) ==
    IF s = <<>> THEN 0
    ELSE ToInteger(SubSeq(s, 1, Len(s) - 1)) * 10 + DigitValue(s[Len(s)])

\* Variant: the second dot-separated field (the minor version) is taken
MajorOfSecondField(v) == Cut(Cut(v, "v", 2), ".", 2)

\* NODE_VERSION=$(node -v | cut -d'v' -f2 | cut -d'.' -f1)
MajorOf(v) == Cut(Cut(v, "v", 2), ".", 1)

MinNodeMajor == 18

\* Variant: the comparison one off, [ "$NODE_VERSION" -lt 17 ]
VersionTooOldOffByOne(nv) == IsInteger(nv) /\ ToInteger(nv) < MinNodeMajor - 1

\* [ "$NODE_VERSION" -lt 18 ]: an operand that is no integer makes the test fail
\* with an error, which the if treats as false.
VersionTooOld(nv) == IsInteger(nv) /\ ToInteger(nv) < MinNodeMajor

-----------------------------------------------------------------------------
(* The scripts, as tables from source line to instruction.  "next" is the line of
   the instruction that follows; for a test, "then" is the first line of its
   body and "next" the line after its fi.  Line 0 is the end of the script.
   Of the echo lines only the error messages and the completion message are
   instructions; the others change nothing the model records. *)

EndPc == 0

Ins(op, path, arg, then, next) ==
    [op |-> op, path |-> path, arg |-> arg, then |-> then, next |-> next]

SetupSh ==
       11 :> Ins("if_no_node", <<>>, "", 12, 17)
    @@ 12 :> Ins("echo", <<>>, "node-missing", 0, 13)
    @@ 13 :> Ins("exit", <<>>, "1", 0, 0)
    @@ 17 :> Ins("read_node_version", <<>>, "", 0, 18)
    @@ 18 :> Ins("if_version_lt", <<>>, "", 19, 27)
    @@ 19 :> Ins("echo", <<>>, "node-too-old", 0, 20)
    @@ 20 :> Ins("exit", <<>>, "1", 0, 0)
    @@ 27 :> Ins("npm_install", <<>>, "lockfile", 0, 30)
    @@ 30 :> Ins("if_not_f", <<".env">>, "", 32, 39)
    @@ 32 :> Ins("cp", <<".env">>, ".env.example", 0, 39)
    @@ 39 :> Ins("if_not_f", <<"frontend", "package.json">>, "", 41, 61)
    @@ 41 :> Ins("mkdir_p", <<"frontend">>, "", 0, 42)
    @@ 42 :> Ins("heredoc", <<"frontend", "package.json">>, "setup.sh:43-57", 0, 61)
    @@ 61 :> Ins("if_not_f", <<"backend", "package.json">>, "", 63, 84)
    @@ 63 :> Ins("mkdir_p", <<"backend">>, "", 0, 64)
    @@ 64 :> Ins("heredoc", <<"backend", "package.json">>, "setup.sh:65-80", 0, 84)
    @@ 84 :> Ins("echo", <<>>, "complete", 0, EndPc)

CodespaceSh ==
       12 :> Ins("apt_get", <<>>, "update", 0, 13)
    @@ 13 :> Ins("apt_get", <<>>, "install", 0, 16)
    @@ 16 :> Ins("if_not_f", <<".env">>, "", 18, 26)
    @@ 18 :> Ins("cp", <<".env">>, ".env.example", 0, 26)
    @@ 26 :> Ins("npm_install", <<>>, "lockfile", 0, 30)
    @@ 30 :> Ins("cd", <<"frontend">>, "", 0, 31)
    @@ 31 :> Ins("if_not_d", <<"node_modules">>, "", 33, 45)
    @@ 33 :> Ins("create_next_app", <<>>, "", 0, 36)
    @@ 36 :> Ins("npm_pkg_set", <<>>, "frontend-scripts", 0, 43)
    @@ 43 :> Ins("npm_install", <<>>, "jest", 0, 45)
    @@ 45 :> Ins("cd", <<"..">>, "", 0, 49)
    @@ 49 :> Ins("cd", <<"backend">>, "", 0, 50)
    @@ 50 :> Ins("if_not_d", <<"node_modules">>, "", 52, 153)
    @@ 52 :> Ins("npm_install", <<>>, "express", 0, 53)
    @@ 53 :> Ins("npm_install", <<>>, "backend-dev", 0, 56)
    @@ 56 :> Ins("npm_pkg_set", <<>>, "backend-scripts", 0, 65)
    @@ 65 :> Ins("heredoc", <<"tsconfig.json">>, "codespace:66-84", 0, 88)
    @@ 88 :> Ins("mkdir_p", <<"src">>, "", 0, 89)
    @@ 89 :> Ins("heredoc", <<"src", "index.ts">>, "codespace:90-150", 0, 153)
    @@ 153 :> Ins("cd", <<"..">>, "", 0, 157)
    @@ 157 :> Ins("cd", <<"shared">>, "", 0, 158)
    @@ 158 :> Ins("if_not_f", <<"package.json">>, "", 159, 246)
    @@ 159 :> Ins("npm_init", <<>>, "", 0, 160)
    @@ 160 :> Ins("npm_pkg_set", <<>>, "shared-fields", 0, 165)
    @@ 165 :> Ins("npm_install", <<>>, "shared-dev", 0, 168)
    @@ 168 :> Ins("heredoc", <<"tsconfig.json">>, "codespace:169-186", 0, 190)
    @@ 190 :> Ins("mkdir_p", <<"src", "types">>, "", 0, 191)
    @@ 191 :> Ins("heredoc", <<"src", "types", "index.ts">>, "codespace:192-216", 0, 219)
    @@ 219 :> Ins("heredoc", <<"src", "index.ts">>, "codespace:220-222", 0, 225)
    @@ 225 :> Ins("mkdir_p", <<"src", "utils">>, "", 0, 226)
    @@ 226 :> Ins("heredoc", <<"src", "utils", "index.ts">>, "codespace:227-240", 0, 243)
    @@ 243 :> Ins("npm_pkg_set", <<>>, "shared-scripts", 0, 246)
    @@ 246 :> Ins("cd", <<"..">>, "", 0, 252)
    @@ 252 :> Ins("if_not_f", <<".prettierrc">>, "", 253, 266)
    @@ 253 :> Ins("heredoc", <<".prettierrc">>, "codespace:254-261", 0, 266)
    @@ 266 :> Ins("if_not_f", <<".eslintrc.js">>, "", 267, 293)
    @@ 267 :> Ins("heredoc", <<".eslintrc.js">>, "codespace:268-289", 0, 293)
    @@ 293 :> Ins("echo", <<>>, "complete", 0, EndPc)

Program(s) == IF s = "setup" THEN SetupSh ELSE CodespaceSh

\* Variant: setup.sh without its Node.js check, starting at the install
FirstLineSkipsCheck(s) == IF s = "setup" THEN 27 ELSE 12

FirstLine(s) == IF s = "setup" THEN 11 ELSE 12

\* The keys each group of consecutive `npm pkg set` lines sets.
PkgKeys(group) ==
    CASE group = "frontend-scripts" ->
            {"scripts.dev=next dev", "scripts.build=next build", "scripts.start=next start",
             "scripts.lint=next lint", "scripts.test=jest"}
      [] group = "backend-scripts" ->
            {"scripts.dev=nodemon src/index.ts", "scripts.start=node dist/index.js",
             "scripts.build=tsc", "scripts.test=jest",
             "scripts.lint=eslint src --ext .ts,.js", "main=dist/index.js"}
      [] group = "shared-fields" ->
            {"name=actual-build-shared",
             "description=Shared utilities and types for Actual Build",
             "main=dist/index.js", "types=dist/index.d.ts"}
      [] group = "shared-scripts" ->
            {"scripts.build=tsc", "scripts.dev=tsc --watch"}

-----------------------------------------------------------------------------
(* Initial states: a checkout in which the script has not run yet.  The
   environment template holds one of two contents or is missing; the user may
   already have made .env and other files by hand. *)

EnvTemplates == {"template-A", "template-B"}
UserFile == File("user")

MkDisk(ex, env, f, b, sh, pr) ==
    [p \in Paths |->
        CASE p = Root -> Dir
          [] p = <<".env.example">> -> ex
          [] p = <<".env">> -> env
          [] p = <<".prettierrc">> -> pr
          [] p = <<"frontend">> -> IF f = "nodir" THEN NoEntry ELSE Dir
          [] p = <<"frontend", "package.json">> -> IF f = "pkg" THEN UserFile ELSE NoEntry
          [] p = <<"backend">> -> IF b = "nodir" THEN NoEntry ELSE Dir
          [] p = <<"backend", "package.json">> -> IF b = "pkg" THEN UserFile ELSE NoEntry
          [] p = <<"backend", "node_modules">> -> IF b = "nm" THEN Dir ELSE NoEntry
          [] p = <<"backend", "tsconfig.json">> -> IF b = "ts" THEN UserFile ELSE NoEntry
          [] p = <<"shared">> -> Dir
          [] p = <<"shared", "package.json">> -> IF sh = "pkg" THEN UserFile ELSE NoEntry
          [] OTHER -> NoEntry]

Templates == {NoEntry} \cup { File(t) : t \in EnvTemplates }

SetupDisks ==
    { MkDisk(ex, env, f, b, "dir", NoEntry) :
        ex \in Templates, env \in {NoEntry, UserFile},
        f \in {"nodir", "dir", "pkg"}, b \in {"nodir", "dir", "pkg"} }

CodespaceDisks ==
    { MkDisk(ex, env, f, b, sh, pr) :
        ex \in Templates, env \in {NoEntry, UserFile},
        f \in {"nodir", "dir"}, b \in {"dir", "nm", "ts"},
        sh \in {"dir", "pkg"}, pr \in {NoEntry, UserFile} }

\* Nothing rendered yet, no request received yet
NoDoc == [type |-> "", lang |-> "", children |-> [type |-> "", className |-> "", children |-> <<>>]]
NoRequest == [method |-> "", path |-> "", body |-> "", env |-> ""]

\* An environment variable: not set, or set to a string (possibly the empty one)
Unset == [set |-> FALSE, value |-> ""]
Set(v) == [set |-> TRUE, value |-> v]

\* A JavaScript value that is a number or a string
Num(n) == [type |-> "number", num |-> n, str |-> ""]
Str(v) == [type |-> "string", num |-> 0, str |-> v]
Undefined == [type |-> "undefined", num |-> 0, str |-> ""]

\* No script has run, nothing has been rendered, requested, started or called
NothingYet ==
    /\ status = "idle"
    /\ pc = EndPc
    /\ cwd = Root
    /\ exit = -1
    /\ NODE_VERSION = <<>>
    /\ start = disk
    /\ orig = disk
    /\ prev = disk
    /\ prevStatus = "none"
    /\ runs = 0
    /\ injected = 0
    /\ ran = {}
    /\ out = {}
    /\ contacted = {}
    /\ children = <<>>
    /\ doc = NoDoc
    /\ clock = 0
    /\ req = NoRequest
    /\ resp = <<>>
    /\ listening = FALSE
    /\ PORT = Undefined
    /\ corsOrigin = Undefined
    /\ called = FALSE
    /\ valid = FALSE

Init ==
    /\ script \in {"setup", "codespace"}
    /\ nodeV \in IF script = "setup" THEN NodeVersions ELSE {<<"v", "2", "0", ".", "1", "1", ".", "0">>}
    /\ disk \in IF script = "setup" THEN SetupDisks ELSE CodespaceDisks
    /\ NothingYet
    /\ API_PORT = Unset
    /\ CORS_ORIGIN = Unset
    /\ email = <<>>

-----------------------------------------------------------------------------
(* Running a script *)

Running == status = "running" /\ pc \in DOMAIN Program(script)
Cur == Program(script)[pc]
At(op) == Running /\ Cur.op = op
Target == Resolve(cwd, Cur.path)

\* Variant: the instruction is started again instead of the next one
GotoRetry(l) ==
    /\ pc' = pc
    /\ ran' = ran \cup {pc}
    /\ UNCHANGED <<status, exit>>

\* The instruction at pc has been executed and control moves to line l.
Goto(l) ==
    /\ pc' = l
    /\ ran' = ran \cup {pc}
    /\ UNCHANGED <<status, exit>>

\* Variant: without set -e a failing command is ignored and the script goes on
AbortIgnored(code) ==
    /\ pc' = Cur.next
    /\ ran' = ran \cup {pc}
    /\ UNCHANGED <<status, exit>>

\* set -e: a command that returns non-zero ends the run with that status.
Abort(code) ==
    /\ status' = "aborted"
    /\ exit' = code
    /\ ran' = ran \cup {pc}
    /\ UNCHANGED pc

\* Variant: the precondition failure leaves with status 0
HaltZero(code) ==
    /\ status' = "aborted"
    /\ exit' = 0
    /\ ran' = ran \cup {pc}
    /\ UNCHANGED pc

\* exit <code>
Halt(code) ==
    /\ status' = "aborted"
    /\ exit' = code
    /\ ran' = ran \cup {pc}
    /\ UNCHANGED pc

\* The environment may make a command fail, MaxInjected times in all.
MayFail == injected < MaxInjected

runFixed == <<script, nodeV, start, orig, prev, prevStatus, runs>>

\* bash <script>, from the project root
StartRun ==
    /\ status # "running"
    /\ runs < MaxRuns
    /\ doc = NoDoc /\ req = NoRequest
    /\ status' = "running"
    /\ pc' = FirstLine(script)
    /\ cwd' = Root
    /\ NODE_VERSION' = <<>>
    /\ ran' = {}
    /\ out' = {}
    /\ runs' = runs + 1
    /\ start' = disk
    /\ orig' = IF status = "aborted" THEN orig ELSE disk
    /\ prev' = disk
    /\ prevStatus' = IF status = "idle" THEN "none" ELSE status
    /\ UNCHANGED <<script, nodeV, exit, disk, injected, contacted>>
    /\ UNCHANGED <<layoutVars, serverVars, unitVars>>

\* if ! command -v node &> /dev/null
IfNoNode ==
    /\ At("if_no_node")
    /\ Goto(IF nodeV = NoNode THEN Cur.then ELSE Cur.next)
    /\ UNCHANGED <<runFixed, cwd, NODE_VERSION, disk, injected, out, contacted>>
    /\ UNCHANGED <<layoutVars, serverVars, unitVars>>

\* NODE_VERSION=$(node -v | cut -d'v' -f2 | cut -d'.' -f1)
ReadNodeVersion ==
    /\ At("read_node_version")
    /\ NODE_VERSION' = MajorOf(nodeV)
    /\ Goto(Cur.next)
    /\ UNCHANGED <<runFixed, cwd, disk, injected, out, contacted>>
    /\ UNCHANGED <<layoutVars, serverVars, unitVars>>

\* if [ "$NODE_VERSION" -lt 18 ]
IfVersionLt ==
    /\ At("if_version_lt")
    /\ Goto(IF VersionTooOld(NODE_VERSION) THEN Cur.then ELSE Cur.next)
    /\ UNCHANGED <<runFixed, cwd, NODE_VERSION, disk, injected, out, contacted>>
    /\ UNCHANGED <<layoutVars, serverVars, unitVars>>

\* echo of an error message or of the completion message
Echo ==
    /\ At("echo")
    /\ out' = out \cup {Cur.arg}
    /\ Goto(Cur.next)
    /\ UNCHANGED <<runFixed, cwd, NODE_VERSION, disk, injected, contacted>>
    /\ UNCHANGED <<layoutVars, serverVars, unitVars>>

\* exit 1
Exit ==
    /\ At("exit")
    /\ Halt(1)
    /\ UNCHANGED <<runFixed, cwd, NODE_VERSION, disk, injected, out, contacted>>
    /\ UNCHANGED <<layoutVars, serverVars, unitVars>>

\* The script runs off its last line: its status is that of the last command.
Finish ==
    /\ status = "running"
    /\ pc = EndPc
    /\ status' = "done"
    /\ exit' = 0
    /\ UNCHANGED <<runFixed, pc, cwd, NODE_VERSION, disk, injected, ran, out, contacted>>
    /\ UNCHANGED <<layoutVars, serverVars, unitVars>>

\* if [ ! -f path ]
IfNotFile ==
    /\ At("if_not_f")
    /\ Goto(IF TestNotFile(disk, Target) THEN Cur.then ELSE Cur.next)
    /\ UNCHANGED <<runFixed, cwd, NODE_VERSION, disk, injected, out, contacted>>
    /\ UNCHANGED <<layoutVars, serverVars, unitVars>>

\* if [ ! -d path ]
IfNotDir ==
    /\ At("if_not_d")
    /\ Goto(IF TestNotDir(disk, Target) THEN Cur.then ELSE Cur.next)
    /\ UNCHANGED <<runFixed, cwd, NODE_VERSION, disk, injected, out, contacted>>
    /\ UNCHANGED <<layoutVars, serverVars, unitVars>>

\* cp .env.example .env.  A copy that fails on the way (a full disk, a quota) has
\* already created its target.
Copy ==
    /\ At("cp")
    /\ LET src == Resolve(cwd, <<Cur.arg>>)
       IN  \/ /\ CanCopy(disk, src, Target)
              /\ disk' = CopyFile(disk, src, Target)
              /\ Goto(Cur.next)
              /\ UNCHANGED injected
           \/ /\ ~CanCopy(disk, src, Target)
              /\ Abort(1)
              /\ UNCHANGED <<disk, injected>>
           \/ /\ CanCopy(disk, src, Target)
              /\ MayFail
              /\ \E cut \in BOOLEAN : disk' = IF cut THEN Truncate(disk, Target) ELSE disk
              /\ Abort(1)
              /\ injected' = injected + 1
    /\ UNCHANGED <<runFixed, cwd, NODE_VERSION, out, contacted>>
    /\ UNCHANGED <<layoutVars, serverVars, unitVars>>

\* mkdir -p path
Mkdir ==
    /\ At("mkdir_p")
    /\ \/ /\ CanMkdirP(disk, Target)
          /\ disk' = MkdirP(disk, Target)
          /\ Goto(Cur.next)
          /\ UNCHANGED injected
       \/ /\ ~CanMkdirP(disk, Target)
          /\ Abort(1)
          /\ UNCHANGED <<disk, injected>>
       \/ /\ CanMkdirP(disk, Target)
          /\ MayFail
          /\ Abort(1)
          /\ UNCHANGED disk
          /\ injected' = injected + 1
    /\ UNCHANGED <<runFixed, cwd, NODE_VERSION, out, contacted>>
    /\ UNCHANGED <<layoutVars, serverVars, unitVars>>

\* cat > path << 'EOF'.  The redirection creates the file before cat writes: a
\* write that fails leaves the file empty.
Heredoc ==
    /\ At("heredoc")
    /\ \/ /\ CanWrite(disk, Target)
          /\ disk' = WriteFile(disk, Target, Cur.arg)
          /\ Goto(Cur.next)
          /\ UNCHANGED injected
       \/ /\ ~CanWrite(disk, Target)
          /\ Abort(1)
          /\ UNCHANGED <<disk, injected>>
       \/ /\ CanWrite(disk, Target)
          /\ MayFail
          /\ \E cut \in BOOLEAN : disk' = IF cut THEN Truncate(disk, Target) ELSE disk
          /\ Abort(1)
          /\ injected' = injected + 1
    /\ UNCHANGED <<runFixed, cwd, NODE_VERSION, out, contacted>>
    /\ UNCHANGED <<layoutVars, serverVars, unitVars>>

\* cd path
Cd ==
    /\ At("cd")
    /\ IF Target = Outside \/ IsDir(disk, Target)
       THEN cwd' = Target /\ Goto(Cur.next)
       ELSE UNCHANGED cwd /\ Abort(1)
    /\ UNCHANGED <<runFixed, NODE_VERSION, disk, injected, out, contacted>>
    /\ UNCHANGED <<layoutVars, serverVars, unitVars>>


\* npm install [packages]: talks to the package registry; the environment decides
\* whether it succeeds.
NpmInstall ==
    /\ At("npm_install")
    /\ contacted' = contacted \cup {"npm-registry"}
    /\ \/ /\ IsDir(disk, cwd)
          /\ disk' = InstallInto(disk, cwd, Cur.arg)
          /\ Goto(Cur.next)
          /\ UNCHANGED injected
       \/ /\ MayFail \/ ~IsDir(disk, cwd)
          /\ \E leftover \in BOOLEAN :
                disk' = IF leftover /\ IsDir(disk, cwd) THEN InstallLeftover(disk, cwd) ELSE disk
          /\ Abort(1)
          /\ injected' = IF IsDir(disk, cwd) THEN injected + 1 ELSE injected
    /\ UNCHANGED <<runFixed, cwd, NODE_VERSION, out>>
    /\ UNCHANGED <<layoutVars, serverVars, unitVars>>

\* Variant: the script goes on to probe the database with the client it installed
AptGetThenProbeDatabase ==
    /\ At("apt_get")
    /\ contacted' = contacted \cup {"apt-mirror", "database"}
    /\ \/ Goto(Cur.next) /\ UNCHANGED injected
       \/ MayFail /\ Abort(100) /\ injected' = injected + 1
    /\ UNCHANGED <<runFixed, cwd, NODE_VERSION, disk, out>>
    /\ UNCHANGED <<layoutVars, serverVars, unitVars>>

\* sudo apt-get update / sudo apt-get install -y postgresql-client git curl: talks
\* to the package mirror and changes system packages, nothing in the project.
AptGet ==
    /\ At("apt_get")
    /\ contacted' = contacted \cup {"apt-mirror"}
    /\ \/ Goto(Cur.next) /\ UNCHANGED injected
       \/ MayFail /\ Abort(100) /\ injected' = injected + 1
    /\ UNCHANGED <<runFixed, cwd, NODE_VERSION, disk, out>>
    /\ UNCHANGED <<layoutVars, serverVars, unitVars>>

\* npx create-next-app@latest . --typescript ... --yes
CreateNextApp ==
    /\ At("create_next_app")
    /\ contacted' = contacted \cup {"npm-registry"}
    /\ \/ /\ CanCreateNextApp(disk, cwd)
          /\ disk' = CreateNextAppIn(disk, cwd)
          /\ Goto(Cur.next)
          /\ UNCHANGED injected
       \/ /\ ~CanCreateNextApp(disk, cwd)
          /\ Abort(1)
          /\ UNCHANGED <<disk, injected>>
       \/ /\ CanCreateNextApp(disk, cwd)
          /\ MayFail
          /\ Abort(1)
          /\ UNCHANGED disk
          /\ injected' = injected + 1
    /\ UNCHANGED <<runFixed, cwd, NODE_VERSION, out>>
    /\ UNCHANGED <<layoutVars, serverVars, unitVars>>

\* npm pkg set key=value (a group of consecutive lines)
NpmPkgSet ==
    /\ At("npm_pkg_set")
    /\ IF CanPkgSet(disk, cwd)
       THEN disk' = PkgSet(disk, cwd, PkgKeys(Cur.arg)) /\ Goto(Cur.next)
       ELSE UNCHANGED disk /\ Abort(1)
    /\ UNCHANGED <<runFixed, cwd, NODE_VERSION, injected, out, contacted>>
    /\ UNCHANGED <<layoutVars, serverVars, unitVars>>

\* npm init -y
NpmInit ==
    /\ At("npm_init")
    /\ IF IsDir(disk, cwd)
       THEN disk' = NpmInitIn(disk, cwd) /\ Goto(Cur.next)
       ELSE UNCHANGED disk /\ Abort(1)
    /\ UNCHANGED <<runFixed, cwd, NODE_VERSION, injected, out, contacted>>
    /\ UNCHANGED <<layoutVars, serverVars, unitVars>>


-----------------------------------------------------------------------------
(* The root layout wrapper *)

ChildrenValues == { <<>>, <<"page">>, <<"header", "page">> }

\* Variant: the body renders its content twice
RootLayoutTwice(c) ==
    [type |-> "html", lang |-> "en",
     children |-> [type |-> "body", className |-> "antialiased", children |-> c \o c]]

\* <html lang="en"><body className="antialiased">{children}</body></html>
RootLayout(c) ==
    [type |-> "html", lang |-> "en",
     children |-> [type |-> "body", className |-> "antialiased", children |-> c]]

\* The application is started once the first provisioning run has completed.  The
\* layout and the generated server share no state with each other or with the
\* scripts' bookkeeping: a behaviour exercises one of them.
DevPhase == status = "done" /\ prevStatus = "none"

Render ==
    /\ DevPhase
    /\ IsDir(disk, <<"frontend", "src">>)
    /\ req = NoRequest
    /\ \E c \in ChildrenValues :
          /\ children' = c
          /\ doc' = RootLayout(c)
    /\ UNCHANGED <<runVars, serverVars, unitVars>>

-----------------------------------------------------------------------------
(* The Express server written to backend/src/index.ts *)

Methods == {"GET", "POST", "OPTIONS"}
RequestPaths == {"/api/health", "/api", "/api/users"}
\* "none": no body; "json": a well-formed JSON body; the others: application/json
\* bodies that do not parse, each with its own parser message.
Bodies == {"none", "json", "bad-token", "bad-end"}
\* Values of NODE_ENV; "unset" stands for the variable not being set.
NodeEnvs == {"development", "production", "test", "unset"}

Requests ==
    [method : Methods, path : RequestPaths, body : Bodies, env : NodeEnvs]

\* Variant: the health response without its version field
HealthResponseNoVersion(t) ==
    [status |-> 200,
     body |-> [status |-> "OK", message |-> "Actual Build API is running",
               timestamp |-> [string |-> "ISO-8601", instant |-> t]]]

\* new Date().toISOString()
ToISOString(t) == [string |-> "ISO-8601", instant |-> t]

NoError == ""
\* express.json(): a body that does not parse is passed to next() as an error
JsonParser(r) ==
    CASE r.body = "bad-token" -> "Unexpected token"
      [] r.body = "bad-end" -> "Unexpected end of JSON input"
      [] OTHER -> NoError

\* cors(): answers a preflight request itself
CorsAnswers(r) == r.method = "OPTIONS"

HealthRoute(r) == r.method = "GET" /\ r.path = "/api/health"
HealthResponse(t) ==
    [status |-> 200,
     body |-> [status |-> "OK", message |-> "Actual Build API is running",
               timestamp |-> ToISOString(t), version |-> "1.0.0"]]

\* Variant: the endpoints listed in the other order
ApiResponseReversed ==
    [status |-> 200,
     body |-> [message |-> "Welcome to Actual Build API",
               endpoints |-> <<"GET /api - This endpoint", "GET /api/health - Health check">>]]

ApiRoute(r) == r.method = "GET" /\ r.path = "/api"
ApiResponse ==
    [status |-> 200,
     body |-> [message |-> "Welcome to Actual Build API",
               endpoints |-> <<"GET /api/health - Health check", "GET /api - This endpoint">>]]

\* Variant: the error's message is sent whatever NODE_ENV is
ErrorResponseLeaky(r, err) ==
    [status |-> 500, body |-> [error |-> "Something went wrong!", message |-> err]]

ErrorResponse(r, err) ==
    [status |-> 500,
     body |-> [error |-> "Something went wrong!",
               message |-> IF r.env = "development" THEN err ELSE "Internal server error"]]

NotFoundResponse == [status |-> 404, body |-> [error |-> "Route not found"]]

\* A preflight answer has no content: its body has no field at all.
EmptyBody == [k \in {} |-> ""]
PreflightResponse == [status |-> 204, body |-> EmptyBody]

\* Variant: the 404 handler registered before the routes
HandleNotFoundFirst(r, t) ==
    IF CorsAnswers(r) THEN <<PreflightResponse>>
    ELSE IF JsonParser(r) # NoError THEN <<ErrorResponse(r, JsonParser(r))>>
    ELSE <<NotFoundResponse>>

\* The middleware stack in registration order: cors, express.json, the two
\* routes, the error handler (reached only with an error), the 404 handler.
Handle(r, t) ==
    IF CorsAnswers(r) THEN <<PreflightResponse>>
    ELSE IF JsonParser(r) # NoError THEN <<ErrorResponse(r, JsonParser(r))>>
    ELSE IF HealthRoute(r) THEN <<HealthResponse(t)>>
    ELSE IF ApiRoute(r) THEN <<ApiResponse>>
    ELSE <<NotFoundResponse>>

ServerGenerated ==
    /\ IsFile(disk, <<"backend", "src", "index.ts">>)
    /\ disk[<<"backend", "src", "index.ts">>].base = "codespace:90-150"

\* NODE_ENV belongs to the server process: every request of one behaviour sees
\* the value the first one saw.
Request ==
    /\ DevPhase
    /\ ServerGenerated
    /\ doc = NoDoc
    /\ clock < MaxClock
    /\ \E r \in Requests :
          /\ req = NoRequest \/ r.env = req.env
          /\ req' = r
          /\ resp' = Handle(r, clock)
    /\ clock' = clock + 1
    /\ UNCHANGED <<runVars, layoutVars, unitVars>>

-----------------------------------------------------------------------------

Next ==
    \/ StartRun
    \/ IfNoNode
    \/ ReadNodeVersion
    \/ IfVersionLt
    \/ Echo
    \/ Exit
    \/ Finish
    \/ IfNotFile
    \/ IfNotDir
    \/ Copy
    \/ Mkdir
    \/ Heredoc
    \/ Cd
    \/ NpmInstall
    \/ AptGet
    \/ CreateNextApp
    \/ NpmPkgSet
    \/ NpmInit
    \/ Render
    \/ Request

Spec == Init /\ [][Next]_vars

\* One step of the running script.  The shell starts the next instruction as soon
\* as the previous one has returned, so a running script is never left waiting.
RunStep ==
    \/ IfNoNode \/ ReadNodeVersion \/ IfVersionLt \/ Echo \/ Exit \/ Finish
    \/ IfNotFile \/ IfNotDir \/ Copy \/ Mkdir \/ Heredoc \/ Cd
    \/ NpmInstall \/ AptGet \/ CreateNextApp \/ NpmPkgSet \/ NpmInit

\* The provisioning scripts alone, at most MaxLiveRuns runs, each run going on
\* while it can.
RunNext == (runs < MaxLiveRuns /\ StartRun) \/ RunStep

LiveSpec == Init /\ [][RunNext]_vars /\ WF_vars(RunStep)


-----------------------------------------------------------------------------
(* The generated files on their own: the start of the server, which reads its
   configuration from the environment, and the shared utility validateEmail.
   Neither depends on how the provisioning went once the files are written, and
   no request handler reads what they compute. *)

DefaultPort == 3001
DefaultOrigin == "http://localhost:3000"

PortSettings == {Unset, Set(""), Set("8080")}
OriginSettings == {Unset, Set(""), Set("https://app.example.com")}

\* Variant: ?? in place of ||, which keeps an empty string
JsOrNullish(a, b) == IF a.set THEN Str(a.value) ELSE b

\* process.env.X || b: an unset variable is undefined and an empty string is
\* falsy, both give b; any other string is the result.
JsOr(a, b) == IF a.set /\ a.value # "" THEN Str(a.value) ELSE b

\* The strings handed to validateEmail: up to MaxEmailLen characters out of a
\* letter, the at sign, the dot and the space.
EmailChars == {"a", "@", ".", " "}
Whitespace == {" "}
Emails == UNION { [1..n -> EmailChars] : n \in 0..MaxEmailLen }

\* Variant: [^@], a class that lets whitespace through
NotAt(c) == c # "@"

\* [^\s@]
NotSpaceNorAt(c) == c \notin Whitespace /\ c # "@"
\* [^\s@]+ matches exactly s[a..b]
MatchesClassPlus(s, a, b) == a <= b /\ \A i \in a..b : NotSpaceNorAt(s[i])

\* /^[^\s@]+@[^\s@]+\.[^\s@]+$/.test(s): some split of the whole string into
\* the five parts of the pattern
EmailRegexTest(s) ==
    \E i, j \in 1..Len(s) :
        /\ i < j
        /\ MatchesClassPlus(s, 1, i - 1)
        /\ s[i] = "@"
        /\ MatchesClassPlus(s, i + 1, j - 1)
        /\ s[j] = "."
        /\ MatchesClassPlus(s, j + 1, Len(s))

validateEmail(s) == EmailRegexTest(s)

UtilsGenerated ==
    /\ IsFile(disk, <<"shared", "src", "utils", "index.ts">>)
    /\ disk[<<"shared", "src", "utils", "index.ts">>].base = "codespace:227-240"

\* A project in which the Codespace script has written the server and the utilities
GeneratedDisk ==
    [MkDisk(File("template-A"), File("template-A"), "dir", "dir", "dir", NoEntry)
        EXCEPT ![<<"backend", "src">>] = Dir,
               ![<<"backend", "src", "index.ts">>] = File("codespace:90-150"),
               ![<<"shared", "src">>] = Dir,
               ![<<"shared", "src", "utils">>] = Dir,
               ![<<"shared", "src", "utils", "index.ts">>] = File("codespace:227-240")]

UnitInit ==
    /\ script = "codespace"
    /\ nodeV = <<"v", "2", "0", ".", "1", "1", ".", "0">>
    /\ disk = GeneratedDisk
    /\ NothingYet
    /\ API_PORT \in PortSettings
    /\ CORS_ORIGIN \in OriginSettings
    /\ email \in Emails

\* node dist/index.js: the module is loaded, PORT and the cors options are
\* computed, app.listen(PORT) is called
Listen ==
    /\ ServerGenerated
    /\ ~listening
    /\ PORT' = JsOr(API_PORT, Num(DefaultPort))
    /\ corsOrigin' = JsOr(CORS_ORIGIN, Str(DefaultOrigin))
    /\ listening' = TRUE
    /\ UNCHANGED <<runVars, layoutVars, serverVars, API_PORT, CORS_ORIGIN, email, called, valid>>

\* validateEmail(email)
CallValidateEmail ==
    /\ UtilsGenerated
    /\ ~called
    /\ valid' = validateEmail(email)
    /\ called' = TRUE
    /\ UNCHANGED <<runVars, layoutVars, serverVars, API_PORT, CORS_ORIGIN, email,
                   listening, PORT, corsOrigin>>

UnitNext == Listen \/ CallValidateEmail

UnitSpec == UnitInit /\ [][UnitNext]_vars

-----------------------------------------------------------------------------
(* Properties *)

EnvFile == <<".env">>
EnvExample == <<".env.example">>
FrontendPkg == <<"frontend", "package.json">>
BackendPkg == <<"backend", "package.json">>

Node17 == <<"v", "1", "7", ".", "9", ".", "1">>
Node18 == <<"v", "1", "8", ".", "0", ".", "0">>
\* The environments in which node is missing or older than 18
UnmetNode == { NoNode, <<"v", "9", ".", "1", "1", ".", "2">>, Node17 }

\* The lines of setup.sh that install, copy, make a directory or write a file
SetupWorkLines == {27, 32, 41, 42, 63, 64}

\* C1: when two runs of setup.sh in succession both complete (the Node precondition
\* holds, every command succeeds), the disk after the second run is the disk after
\* the first.
C1_SetupIdempotent ==
    (script = "setup" /\ status = "done" /\ prevStatus = "done") => disk = prev

\* A second completed run of setup.sh after a first one that created .env and
\* frontend/package.json
C1_SecondRunDone ==
    /\ script = "setup" /\ status = "done" /\ prevStatus = "done"
    /\ disk[EnvFile].base \in EnvTemplates
    /\ disk[FrontendPkg].base = "setup.sh:43-57"
    /\ "lockfile" \in disk[<<"node_modules">>].mods

\* C2: when node is missing or older than 18, a run of setup.sh changes nothing on
\* disk, runs no install command and contacts nothing, and it ends aborted with a
\* non-zero status.
C2_UnmetPreconditionWritesNothing ==
    (script = "setup" /\ nodeV \in UnmetNode /\ runs > 0) =>
        /\ disk = start
        /\ ran \cap SetupWorkLines = {}
        /\ contacted = {}
        /\ status # "done"
        /\ status = "aborted" => exit # 0

\* A run of setup.sh under Node 17 that has ended at the version check
C2_AbortedUnderNode17 ==
    /\ script = "setup" /\ nodeV = Node17
    /\ status = "aborted" /\ exit = 1
    /\ "node-too-old" \in out

\* C3: the document RootLayout returns holds the children value it was given,
\* once and unchanged, as the content of body, inside the same shell whatever
\* the children value is.
C3_LayoutRendersChildren ==
    doc # NoDoc =>
        /\ doc.children.children = children
        /\ doc.type = "html" /\ doc.lang = "en"
        /\ doc.children.type = "body" /\ doc.children.className = "antialiased"
        /\ DOMAIN doc = {"type", "lang", "children"}
        /\ DOMAIN doc.children = {"type", "className", "children"}

\* The layout has rendered the empty children value
C3_RenderedEmpty ==
    doc # NoDoc /\ children = <<>> /\ doc.children.children = <<>>


\* C4 as stated: no step that contacts a network service, a database or an
\* authentication service has been executed.
C4_NothingContacted == contacted = {}

PackageManagerOps == {"npm_install", "apt_get", "create_next_app"}

\* C4 amended: no database and no authentication service is ever contacted; the
\* only contacts are those of the package-manager commands (npm install and
\* npx create-next-app with the npm registry, apt-get with the package mirror, the
\* latter in the Codespace script only); the layout wrapper and every other step
\* contact nothing.
C4_OnlyPackageManagersContact ==
    /\ [](/\ contacted \subseteq {"npm-registry", "apt-mirror"}
          /\ script = "setup" => contacted \subseteq {"npm-registry"})
    /\ [][contacted' # contacted => Running /\ Cur.op \in PackageManagerOps]_vars

\* A completed run of the Codespace script has contacted both services
C4_BothContacted ==
    script = "codespace" /\ status = "done" /\ contacted = {"npm-registry", "apt-mirror"}

\* C5: a file among .env, frontend/package.json and backend/package.json that
\* exists when a run of setup.sh starts keeps its content throughout the run,
\* however the run ends.
C5_SetupKeepsExistingFiles ==
    script = "setup" =>
        \A f \in {EnvFile, FrontendPkg, BackendPkg} : IsFile(start, f) => disk[f] = start[f]

\* A completed run of setup.sh that found the user's .env and frontend/package.json
\* and wrote backend/package.json
C5_UserFilesKept ==
    /\ script = "setup" /\ status = "done"
    /\ start[EnvFile] = UserFile /\ disk[EnvFile] = UserFile
    /\ start[FrontendPkg] = UserFile /\ disk[FrontendPkg] = UserFile
    /\ IsFile(start, EnvExample)
    /\ 64 \in ran

\* A run that is past the tool-version precondition (the Codespace script has none)
PastPrecondition == runs > 0 /\ (script = "setup" => 27 \in ran \/ pc = 27)
Ended == status \in {"done", "aborted"}

\* C6 as stated: once the precondition has passed, the run ends at its completion
\* message with status 0.
C6_RunAlwaysCompletes ==
    (PastPrecondition /\ Ended) => (status = "done" /\ exit = 0 /\ "complete" \in out)

\* The instructions that are commands (set -e applies), as opposed to tests
CommandOps ==
    {"npm_install", "apt_get", "create_next_app", "cp", "mkdir_p", "heredoc", "cd",
     "npm_pkg_set", "npm_init"}

\* C6 amended: past the precondition a run ends either at its completion message
\* with status 0, and then every command it executed has succeeded (the root
\* install is in place, .env exists, and .env or .env.example existed at the
\* start), or aborted with a non-zero status and no completion message at the
\* command that failed.  Only file creation is guarded by existence checks.
C6_CompletesIffCommandsSucceed ==
    (PastPrecondition /\ Ended) =>
        /\ (status = "done") <=> (exit = 0)
        /\ (status = "done") <=> ("complete" \in out)
        /\ status = "aborted" => Cur.op \in CommandOps
        /\ status = "done" =>
              /\ "lockfile" \in disk[<<"node_modules">>].mods
              /\ IsFile(disk, EnvFile)
              /\ IsFile(start, EnvFile) \/ IsFile(start, EnvExample)

\* A run of setup.sh that passed the precondition and aborted at cp because neither
\* .env nor .env.example exists
C6_AbortedAtCopy ==
    /\ script = "setup" /\ status = "aborted" /\ pc = 32 /\ exit = 1
    /\ ~IsFile(disk, EnvFile) /\ ~IsFile(disk, EnvExample)
    /\ "lockfile" \in disk[<<"node_modules">>].mods

WorkOps == {"npm_install", "apt_get", "create_next_app", "cp", "heredoc"}
CheckOps == {"if_no_node", "read_node_version", "if_version_lt"}
OpsRan == { Program(script)[l].op : l \in ran }

\* C7 as stated: in either script, no template copy, install or file write happens
\* before a tool-version check.
C7_CheckPrecedesWork ==
    (OpsRan \cap WorkOps # {}) => ("if_version_lt" \in OpsRan)

\* C7 amended: setup.sh checks the Node version (lines 11-21) before it installs,
\* copies or writes anything, and does so only under a version of at least 18;
\* the Codespace script performs no tool-version check at all.
C7_OnlySetupChecksVersion ==
    /\ (script = "setup" /\ ran \cap SetupWorkLines # {}) =>
          ({11, 17, 18} \subseteq ran /\ nodeV \notin UnmetNode)
    /\ script = "codespace" => OpsRan \cap CheckOps = {}

\* A completed run of setup.sh that checked the version and then wrote a file
C7_SetupCheckedThenWrote ==
    script = "setup" /\ status = "done" /\ {11, 17, 18, 27, 42} \subseteq ran


\* The disk an uninterrupted run of setup.sh in which every command succeeds
\* leaves behind when started on disk d: the root install in place, .env copied
\* from the template unless it existed, the two package.json files written unless
\* they existed, everything else as it was.
ExpectedAfterSetup(d) ==
    [p \in Paths |->
        CASE p = <<"node_modules">> ->
                [kind |-> "dir", base |-> "", mods |-> d[p].mods \cup {"lockfile"}]
          [] p = EnvFile -> IF IsFile(d, p) THEN d[p] ELSE d[EnvExample]
          [] p = <<"frontend">> -> IF d[p].kind = "none" THEN Dir ELSE d[p]
          [] p = FrontendPkg -> IF IsFile(d, p) THEN d[p] ELSE File("setup.sh:43-57")
          [] p = <<"backend">> -> IF d[p].kind = "none" THEN Dir ELSE d[p]
          [] p = BackendPkg -> IF IsFile(d, p) THEN d[p] ELSE File("setup.sh:65-80")
          [] OTHER -> d[p]]

\* C8 as stated: a completed run of setup.sh that follows an aborted one ends on
\* the disk one uninterrupted successful run would have left from the original
\* state.
C8_RerunReachesUninterruptedResult ==
    (script = "setup" /\ status = "done" /\ prevStatus = "aborted") =>
        disk = ExpectedAfterSetup(orig)

\* A file some failed write has left empty
HasEmptyFile(d) == \E p \in Paths : d[p] = File("")

\* What holds of re-runs of setup.sh (the part of C8 the code keeps): nothing on
\* disk is ever removed (an abort rolls nothing back); a completed run has
\* executed exactly the creation steps whose target was no file when it started;
\* and a completed run that follows aborted ones ends on the disk of one
\* uninterrupted successful run from the original state unless an aborted run
\* left an empty target behind (such a file exists, so its step is skipped and
\* it stays empty).
C8_RerunSkipsExistingTargets ==
    /\ [][\A p \in Paths : Exists(disk, p) => Exists(disk', p)]_vars
    /\ [](script = "setup" /\ status = "done" =>
            /\ (32 \in ran) <=> ~IsFile(start, EnvFile)
            /\ (42 \in ran) <=> ~IsFile(start, FrontendPkg)
            /\ (64 \in ran) <=> ~IsFile(start, BackendPkg)
            /\ ~HasEmptyFile(start) => disk = ExpectedAfterSetup(orig))

\* A run of setup.sh completed after one that aborted at the write of
\* backend/package.json, having created .env and frontend/package.json
C8_RerunAfterAbortedWrite ==
    /\ script = "setup" /\ status = "done" /\ prevStatus = "aborted"
    /\ IsFile(start, EnvFile) /\ ~IsFile(orig, EnvFile)
    /\ IsFile(start, FrontendPkg) /\ ~IsFile(orig, FrontendPkg)
    /\ ~IsFile(start, BackendPkg) /\ 64 \in ran /\ 32 \notin ran /\ 42 \notin ran
    /\ ~HasEmptyFile(start)


\* The lines of the Codespace script that sit inside an existence check
CodespaceGuardedLines ==
    {18, 33, 36, 43, 52, 53, 56, 65, 88, 89,
     159, 160, 165, 168, 190, 191, 219, 225, 226, 243, 253, 267}

\* C9: in a run of the Codespace script that follows a completed one, no guarded
\* line is executed (no template file is written, .env is not copied) and every
\* file that existed when the first run ended keeps its content.
C9_CodespaceSecondRunWritesNothing ==
    (script = "codespace" /\ prevStatus = "done" /\ status # "idle") =>
        /\ ran \cap CodespaceGuardedLines = {}
        /\ \A p \in Paths : IsFile(prev, p) => disk[p] = prev[p]

\* A second run of the Codespace script completed after a first one that wrote the
\* backend, shared and root templates
C9_SecondCodespaceRunDone ==
    /\ script = "codespace" /\ prevStatus = "done" /\ status = "done"
    /\ disk[<<"backend", "src", "index.ts">>].base = "codespace:90-150"
    /\ disk[<<"backend", "tsconfig.json">>].base = "codespace:66-84"
    /\ disk[<<"shared", "src", "utils", "index.ts">>].base = "codespace:227-240"
    /\ disk[<<".prettierrc">>].base = "codespace:254-261"
    /\ disk[<<".eslintrc.js">>].base = "codespace:268-289"
    /\ disk[EnvFile].base \in EnvTemplates

IsHealthRequest == req.method = "GET" /\ req.path = "/api/health"
Timestamps == { ToISOString(t) : t \in 0..MaxClock }

\* The body of the documented health answer: exactly these four fields
IsHealthAnswer(r) ==
    /\ r.status = 200
    /\ DOMAIN r.body = {"status", "message", "version", "timestamp"}
    /\ r.body.status = "OK"
    /\ r.body.message = "Actual Build API is running"
    /\ r.body.version = "1.0.0"
    /\ r.body.timestamp \in Timestamps

IsApiRequest == req.method = "GET" /\ req.path = "/api"

\* The documented API information answer
IsApiAnswer(r) ==
    /\ r.status = 200
    /\ DOMAIN r.body = {"message", "endpoints"}
    /\ r.body.message = "Welcome to Actual Build API"
    /\ r.body.endpoints = <<"GET /api/health - Health check", "GET /api - This endpoint">>

FollowsApiResponse(r) ==
    /\ "success" \in DOMAIN r.body
    /\ r.body.success \in BOOLEAN
    /\ r.body.success = FALSE => "error" \in DOMAIN r.body

\* C12: every body sent for a health check, an API information request, an
\* unknown route or an error follows the ApiResponse structure.
C12_ResponsesFollowApiResponse ==
    \A i \in 1..Len(resp) :
        resp[i].status \in {200, 404, 500} => FollowsApiResponse(resp[i])


Node20 == <<"v", "2", "0", ".", "1", "1", ".", "0">>
\* The lines of the Node.js check of setup.sh
SetupCheckLines == {11, 12, 13, 17, 18, 19, 20}
\* A run of setup.sh whose Node.js check has been decided
CheckDecided ==
    script = "setup" /\ runs > 0 /\ (status # "running" \/ pc \notin SetupCheckLines)

\* C13: setup.sh goes on to its first step (line 27) exactly when node is present
\* with major version 18 or higher (18.0.0 and 20.11.0 pass); under 17.9.1, 9.11.2
\* or without node the run ends with exit status 1 before line 27, with the
\* message of the check that failed.
C13_PreconditionIffNode18 ==
    CheckDecided =>
        /\ (27 \in ran \/ pc = 27) <=> nodeV \in {Node18, Node20}
        /\ nodeV \in UnmetNode =>
              /\ status = "aborted" /\ exit = 1 /\ ran \subseteq SetupCheckLines
              /\ nodeV = NoNode <=> "node-missing" \in out
              /\ nodeV # NoNode <=> "node-too-old" \in out

\* A run of setup.sh under Node 18.0.0 that has passed the check and installed
C13_Node18Accepted ==
    script = "setup" /\ nodeV = Node18 /\ {11, 17, 18, 27} \subseteq ran /\ NODE_VERSION = <<"1", "8">>

\* C14: a run of setup.sh that has ended has status 0 exactly when it printed the
\* completion message, and then the Node.js check passed and nothing failed (no
\* failure in a first run; .env or its template was there for the copy); a run
\* that stopped at a failing command or at the check has a non-zero status, has
\* executed no line after the one it stopped at, and has not printed the message.
C14_ExitStatusReportsOutcome ==
    (script = "setup" /\ Ended) =>
        /\ (exit = 0) <=> ("complete" \in out)
        /\ (exit = 0) <=> (status = "done")
        /\ status = "done" =>
              /\ {11, 17, 18, 27, 84} \subseteq ran /\ nodeV \notin UnmetNode
              /\ runs = 1 => injected = 0
              /\ IsFile(start, EnvFile) \/ IsFile(start, EnvExample)
        /\ status = "aborted" =>
              /\ exit # 0 /\ 84 \notin ran
              /\ \A l \in ran : l <= pc
              /\ pc \in ran

\* A run of setup.sh stopped by a failing npm install, status 1, nothing after it
C14_StoppedAtNpmInstall ==
    /\ script = "setup" /\ status = "aborted" /\ pc = 27 /\ exit = 1
    /\ injected = 1 /\ ran = {11, 17, 18, 27} /\ "complete" \notin out


BackendTsconfig == <<"backend", "tsconfig.json">>
BackendIndex == <<"backend", "src", "index.ts">>
SharedPkg == <<"shared", "package.json">>
SharedSources ==
    { <<"shared", "tsconfig.json">>, <<"shared", "src", "index.ts">>,
      <<"shared", "src", "types", "index.ts">>, <<"shared", "src", "utils", "index.ts">> }

\* The files the Codespace script writes from a template or copies
CodespaceTemplateFiles ==
    {BackendTsconfig, BackendIndex, <<".prettierrc">>, <<".eslintrc.js">>, EnvFile}
        \cup SharedSources

\* C15: a template file that exists when a run of the Codespace script starts has
\* the same content when the run has completed.
C15_CodespaceKeepsExistingFiles ==
    (script = "codespace" /\ status = "done") =>
        \A f \in CodespaceTemplateFiles : IsFile(start, f) => disk[f] = start[f]

\* C16: a completed run of the Codespace script that follows an aborted one has
\* what one uninterrupted successful run from the original state would have
\* made: the backend files when backend/node_modules was missing, the shared
\* files when shared/package.json was missing.
C16_CodespaceRerunCompletesBlocks ==
    (script = "codespace" /\ status = "done" /\ prevStatus = "aborted") =>
        /\ ~IsDir(orig, <<"backend", "node_modules">>) =>
              IsFile(disk, BackendTsconfig) /\ IsFile(disk, BackendIndex)
        /\ ~IsFile(orig, SharedPkg) => \A f \in SharedSources : IsFile(disk, f)


\* C17: when a run of setup.sh has exited with status 0, .env, frontend/package.json
\* and backend/package.json are files (and frontend/ and backend/ directories),
\* whatever the disk held when the run started.
C17_SetupPostcondition ==
    (script = "setup" /\ Ended /\ exit = 0) =>
        /\ IsFile(disk, EnvFile) /\ IsFile(disk, FrontendPkg) /\ IsFile(disk, BackendPkg)
        /\ IsDir(disk, <<"frontend">>) /\ IsDir(disk, <<"backend">>)

\* A run of setup.sh completed from a checkout without .env, frontend/ and backend/
C17_CompletedFromBareCheckout ==
    /\ script = "setup" /\ status = "done" /\ exit = 0
    /\ ~Exists(start, EnvFile) /\ ~Exists(start, <<"frontend">>) /\ ~Exists(start, <<"backend">>)
    /\ IsFile(disk, EnvFile) /\ IsFile(disk, FrontendPkg) /\ IsFile(disk, BackendPkg)

\* The copy of the environment template: line 32 of setup.sh, line 18 of the
\* Codespace script
EnvCopyLine == IF script = "setup" THEN 32 ELSE 18

\* C18: a cp step that succeeds ran with .env absent and leaves .env with exactly
\* the content of .env.example; no step of either script ever creates, changes or
\* removes .env.example; and a run that completed after copying has .env equal to
\* the template.
C18_EnvCopiedFromTemplate ==
    /\ [][(At("cp") /\ pc' = Cur.next) =>
            /\ ~IsFile(disk, EnvFile)
            /\ disk'[EnvFile] = disk[EnvExample]
            /\ IsFile(disk', EnvFile)]_vars
    /\ [][disk'[EnvExample] = disk[EnvExample]]_vars
    /\ []((status = "done" /\ EnvCopyLine \in ran) => disk[EnvFile] = disk[EnvExample])

\* A completed run of the Codespace script that copied template-B into .env
C18_CodespaceCopiedTemplate ==
    /\ script = "codespace" /\ status = "done" /\ 18 \in ran
    /\ disk[EnvExample] = File("template-B") /\ disk[EnvFile] = File("template-B")


\* C19: every run of either script ends, at its completion message or aborted;
\* while it runs, each step executes the instruction at pc, records it, and moves
\* to the instruction the script puts next (the body or the continuation of a
\* test), which lies further down the script: no instruction is executed twice
\* and none is started before the one before it has finished.
C19_RunsTerminateInOrder ==
    /\ (status = "running") ~> (status \in {"done", "aborted"})
    /\ [][(Running /\ status' = "running") =>
            /\ pc' \in {Cur.then, Cur.next}
            /\ pc' > pc \/ pc' = EndPc
            /\ pc \notin ran /\ ran' = ran \cup {pc}]_vars
    /\ []((status = "done") => ("complete" \in out /\ pc = EndPc))

\* A run of the Codespace script that has ended aborted inside the backend block
C19_CodespaceRunEndedAborted ==
    script = "codespace" /\ status = "aborted" /\ pc = 53 /\ {12, 31, 50, 52} \subseteq ran


\* C20: whenever a here-document is about to be written, the directory that is
\* to hold the file exists, so the write is possible; a here-document fails only
\* when the environment makes it fail, never for lack of the directory.
C20_HeredocParentExists ==
    /\ [](At("heredoc") =>
            (Target \in Paths /\ IsDir(disk, Parent(Target)) /\ CanWrite(disk, Target)))
    /\ [][(At("heredoc") /\ status' = "aborted") => injected' = injected + 1]_vars

\* setup.sh about to write frontend/package.json into the directory it just made
C20_AboutToWriteIntoNewDirectory ==
    /\ script = "setup" /\ At("heredoc") /\ pc = 42
    /\ ~Exists(start, <<"frontend">>) /\ IsDir(disk, <<"frontend">>)


\* A request has been received and it raised no error / it raised one
Received == req # NoRequest
RaisedNoError == Received /\ JsonParser(req) = NoError
RaisedError == Received /\ JsonParser(req) # NoError

ReachedErrorHandler == RaisedError /\ req.method # "OPTIONS"

C23_ConfigurationDefaults ==
    listening =>
        /\ (API_PORT.set /\ API_PORT.value # "") => PORT = Str(API_PORT.value)
        /\ (~API_PORT.set \/ API_PORT.value = "") => PORT = Num(3001)
        /\ (CORS_ORIGIN.set /\ CORS_ORIGIN.value # "") => corsOrigin = Str(CORS_ORIGIN.value)
        /\ (~CORS_ORIGIN.set \/ CORS_ORIGIN.value = "") => corsOrigin = Str("http://localhost:3000")

\* The server started with API_PORT set to the empty string and CORS_ORIGIN set
C23_StartedWithEmptyPort ==
    /\ listening /\ API_PORT = Set("") /\ PORT = Num(3001)
    /\ CORS_ORIGIN = Set("https://app.example.com")
    /\ corsOrigin = Str("https://app.example.com")

\* The number of places of s that hold character c
Count(s, c) == Cardinality({ i \in 1..Len(s) : s[i] = c })
\* The place of the first at sign of s (0 when there is none)
AtSign(s) ==
    IF \E i \in 1..Len(s) : s[i] = "@"
    THEN CHOOSE i \in 1..Len(s) : s[i] = "@" /\ \A k \in 1..(i - 1) : s[k] # "@"
    ELSE 0

\* C24: validateEmail returns true exactly for the strings that hold no
\* whitespace, hold exactly one at sign with at least one character before it,
\* and hold, after the at sign, a dot that is neither the first nor the last
\* character of that part.
C24_ValidateEmailShape ==
    called =>
        (valid <=>
            /\ Count(email, " ") = 0
            /\ Count(email, "@") = 1
            /\ AtSign(email) > 1
            /\ \E j \in (AtSign(email) + 2)..(Len(email) - 1) : email[j] = ".")

\* validateEmail has accepted a@a.a
C24_AcceptedShortestAddress ==
    called /\ valid /\ email = <<"a", "@", "a", ".", "a">>


\* The first line of each section of the Codespace script, and the lines of the
\* root section that test for and write the two configuration files
SectionStarts == {30, 49, 157, 252}
RootConfigLines == {252, 253, 266, 267}
RootConfigFiles == {<<".prettierrc">>, <<".eslintrc.js">>}
\* The lines inside each section, after its cd
SectionLines(first) ==
    CASE first = 30 -> 31..45
      [] first = 49 -> 50..153
      [] first = 157 -> 158..246
      [] first = 252 -> 253..293

\* C25: in a run of the Codespace script the working directory is the project
\* root at the first line of every section and at the lines that write the root
\* configuration files, so the two files are written in the root and their
\* contents appear nowhere else; a cd whose directory is missing aborts the run
\* with the files untouched and with no line of its section executed.
C25_SectionsStartAtRoot ==
    /\ []((script = "codespace" /\ status \in {"running", "aborted"}) =>
            /\ pc \in (SectionStarts \cup RootConfigLines) => cwd = Root
            /\ At("heredoc") /\ pc \in RootConfigLines => Target \in RootConfigFiles
            /\ \A p \in Paths :
                  disk[p].base \in {"codespace:254-261", "codespace:268-289"}
                      => p \in RootConfigFiles
            /\ (status = "aborted" /\ pc \in SectionStarts)
                  => ran \cap SectionLines(pc) = {})
    /\ [][(script = "codespace" /\ At("cd") /\ Target # Outside /\ ~IsDir(disk, Target))
            => (status' = "aborted" /\ exit' # 0 /\ disk' = disk)]_vars

\* A completed first run of the Codespace script that skipped the backend block,
\* executed the shared block and then wrote .prettierrc in the project root
C25_RootFileWrittenAfterSkippedBlock ==
    /\ script = "codespace" /\ status = "done" /\ prevStatus = "none"
    /\ 52 \notin ran /\ 159 \in ran /\ 253 \in ran
    /\ IsFile(disk, <<".prettierrc">>)
    /\ disk[<<".prettierrc">>].base = "codespace:254-261"

====
